---- MODULE Spec2Model ----
(***************************************************************************)
(* Waitlist signup service with referrals.                                 *)
(*                                                                         *)
(*   POST /api/waitlist            src/src/app/api/waitlist/route.ts       *)
(*   GET  /api/waitlist/count      src/src/app/api/waitlist/count/route.ts *)
(*   GET  /api/waitlist/referrals  src/unnamed/part_001                    *)
(*   Subscriber table              src/prisma/schema.prisma                *)
(*   WaitlistForm component        src/src/components/waitlist-form.tsx    *)
(*                                                                         *)
(* A JavaScript string is a sequence of one-character strings.  An         *)
(* optional value is <<>> (undefined / null) or <<v>>.  A subscriber id    *)
(* (a uuid in the schema) is a positive integer, 0 is the null id.         *)
(* Every await of the POST handler is a point where other requests may     *)
(* run, so the handler is one action per store round trip.  The store is   *)
(* reachable for the POST handler and the referral lookup: the only errors *)
(* it raises there are constraint violations.  The store call of the count *)
(* route returns or throws.                                                *)
(***************************************************************************)
EXTENDS Integers, Sequences, FiniteSets, TLC

(***************************************************************************)
(* Bounds of the model.                                                    *)
(***************************************************************************)
NumSlots == 2
MaxRequests == 3

(***************************************************************************)
(* Characters and strings.                                                 *)
(***************************************************************************)
DigitChars == <<"0","1","2","3","4","5","6","7","8","9">>
LowerChars == <<"a","b","c","d","e","f","g","h","i","j","k","l","m",
                "n","o","p","q","r","s","t","u","v","w","x","y","z">>
UpperChars == <<"A","B","C","D","E","F","G","H","I","J","K","L","M",
                "N","O","P","Q","R","S","T","U","V","W","X","Y","Z">>

Range(f) == {f[i] : i \in DOMAIN f}
Letters == Range(LowerChars) \cup Range(UpperChars)
AlphaNum == Letters \cup Range(DigitChars)

None == <<>>
Some(v) == <<v>>
NullId == 0

\* String.prototype.toUpperCase, one character
ToUpperChar(c) ==
  IF c \in Range(LowerChars)
    THEN UpperChars[CHOOSE i \in DOMAIN LowerChars : LowerChars[i] = c]
    ELSE c

\* String.prototype.toUpperCase
ToUpperCase(s) == [i \in 1..Len(s) |-> ToUpperChar(s[i])]

\* String.prototype.substring(from, to) for 0 <= from <= to, 0-based, end exclusive
Min(a, b) == IF a < b THEN a ELSE b
Substring(s, from, to) == SubSeq(s, Min(from, Len(s)) + 1, Min(to, Len(s)))

(***************************************************************************)
(* generateUniqueCode.  A value of Math.random() is given by the digits    *)
(* (0..35) of its base-36 fraction as Number.prototype.toString(36)        *)
(* prints them: none for 0, one for 0.5, eleven or so for most doubles.    *)
(***************************************************************************)
CodeStart == 2
CodeEnd == 10
CodeLength == 8

\* Number.prototype.toString(36) of a value in [0,1)
ToString36(frac) ==
  IF Len(frac) = 0 THEN <<"0">>
  ELSE <<"0", ".">> \o [i \in 1..Len(frac) |-> (DigitChars \o LowerChars)[frac[i] + 1]]

generateUniqueCode(frac) == ToUpperCase(Substring(ToString36(frac), CodeStart, CodeEnd))

\* values of Math.random(): 0, 0.5 and a double with a long expansion
RandomValues ==
  { <<>>,
    <<18>>,
    <<10, 1, 11, 2, 12, 3, 13, 4, 14, 5, 15>> }

\* waitlistSchema: z.string().email(), name and referralCode optional strings.
\* The email check is zod's pattern (case-insensitive)
\*   ^(?!\.)(?!.*\.\.)([A-Z0-9_'+\-\.]*)[A-Z0-9_+-]@([A-Z0-9][A-Z0-9\-]*\.)+[A-Z]{2,}$
IsEmail(s) ==
  LET n == Len(s)
      ats == {i \in 1..n : s[i] = "@"}
  IN /\ Cardinality(ats) = 1
     /\ LET at == CHOOSE i \in ats : TRUE
            local == SubSeq(s, 1, at - 1)
            dom == SubSeq(s, at + 1, n)
            dots == {i \in 1..Len(dom) : dom[i] = "."}
        IN /\ Len(local) >= 1
           /\ \A i \in 1..Len(local) : local[i] \in AlphaNum \cup {"_", "'", "+", "-", "."}
           /\ local[Len(local)] \in AlphaNum \cup {"_", "+", "-"}
           /\ s[1] # "."
           /\ \A i \in 1..(n - 1) : ~(s[i] = "." /\ s[i + 1] = ".")
           /\ dots # {}
           /\ LET lastDot == CHOOSE i \in dots : \A j \in dots : j <= i
              IN /\ Len(dom) - lastDot >= 2
                 /\ \A i \in (lastDot + 1)..Len(dom) : dom[i] \in Letters
                 /\ \A i \in 1..(lastDot - 1) :
                       /\ dom[i] \in AlphaNum \cup {"-", "."}
                       /\ (i = 1 \/ dom[i - 1] = ".") => dom[i] \in AlphaNum
                 /\ lastDot > 1

\* waitlistSchema.safeParse(body).success; body fields are optional strings
waitlistSchema(body) ==
  /\ body.email # None
  /\ IsEmail(body.email[1])


(***************************************************************************)
(* Requests.  A body is what request.json() yields: json = FALSE is a body *)
(* that is not JSON (request.json() throws).                               *)
(***************************************************************************)
ValidEmailInputs ==
  { <<"a","b","c","@","d",".","i","o">>,
    <<"A","b","c","@","d",".","i","o">>,
    <<"x","@","d",".","i","o">> }

InvalidEmailInputs == { <<"a","b","c">> }

NameInputs == { None, Some(<<"A","l">>) }

\* the codes a client can know of, and the empty string of a blank form field
ReferralCodeInputs == {None} \cup {Some(generateUniqueCode(v)) : v \in RandomValues}

Body(email, name, referralCode) ==
  [json |-> TRUE, email |-> email, name |-> name, referralCode |-> referralCode]

\* the requests tried: each email alone, one with a name, two emails with each
\* referral code, an invalid email, and a body that is not JSON
Bodies ==
  {Body(Some(e), None, None) : e \in ValidEmailInputs}
  \cup {Body(Some(<<"x","@","d",".","i","o">>), n, None) : n \in NameInputs}
  \cup {Body(Some(e), None, c) :
          e \in {<<"a","b","c","@","d",".","i","o">>, <<"A","b","c","@","d",".","i","o">>},
          c \in ReferralCodeInputs}
  \cup {Body(Some(e), None, None) : e \in InvalidEmailInputs}
  \cup {[json |-> FALSE, email |-> None, name |-> None, referralCode |-> None]}

\* the limits the validation module sets on the fields of the form
EmailMin == 5
EmailMax == 100
NameMin == 1
NameMax == 100

\* WaitlistSchema.safeParse(body).success of the validation module, which the
\* route imports: the fields whose checks fail
WaitlistSchema(body) ==
  {f \in {"email"} :
     \/ body.email = None
     \/ ~IsEmail(body.email[1])
     \/ Len(body.email[1]) < EmailMin
     \/ Len(body.email[1]) > EmailMax}
  \cup {f \in {"name"} :
          /\ body.name # None
          /\ (Len(body.name[1]) < NameMin \/ Len(body.name[1]) > NameMax)}

\* an email of n characters
LongEmail(n) == [i \in 1..(n - 5) |-> "a"] \o <<"@","d",".","i","o">>

\* bodies at the limits of the fields: no email, an email that is none, emails
\* of EmailMax and EmailMax + 1 characters, names of 0, NameMax and
\* NameMax + 1 characters, and a referred signup
LimitBodies ==
  { Body(None, None, None),
    Body(Some(<<"a","@","b">>), None, None),
    Body(Some(LongEmail(EmailMax)), None, None),
    Body(Some(LongEmail(EmailMax + 1)), None, None),
    Body(Some(<<"x","@","d",".","i","o">>), Some(<<>>), None),
    Body(Some(<<"x","@","d",".","i","o">>), Some([i \in 1..NameMax |-> "n"]), None),
    Body(Some(<<"x","@","d",".","i","o">>), Some([i \in 1..(NameMax + 1) |-> "n"]), None),
    Body(Some(<<"a","b","c","@","d",".","i","o">>), None, Some(<<"I">>)) }

NoBody == [json |-> FALSE, email |-> None, name |-> None, referralCode |-> None]

\* variant: the test is referralCode !== undefined
TruthyDefined(opt) == opt # None

\* JavaScript truthiness of an optional string: undefined and "" are falsy
Truthy(opt) == opt # None /\ Len(opt[1]) > 0

(***************************************************************************)
(* Responses (NextResponse.json).                                          *)
(***************************************************************************)
NoResponse == [status |-> 0]

ValidationFailed(fields) ==
  [status |-> 400, success |-> FALSE, message |-> "Validation failed", errors |-> fields]

DuplicateEmail ==
  [status |-> 400, success |-> FALSE, message |-> "This email is already on the waitlist"]

InvalidReferralCode ==
  [status |-> 400, success |-> FALSE, message |-> "Invalid referral code"]

ServerError ==
  [status |-> 500, success |-> FALSE,
   message |-> "An error occurred while processing your request"]

Joined(code) ==
  [status |-> 200, success |-> TRUE,
   message |-> "Thank you for joining our waitlist! We'll notify you when we launch.",
   referralCode |-> code]

(***************************************************************************)
(* The Subscriber table and the store calls of the handlers.               *)
(***************************************************************************)
\* variant: the lookup does not see the row inserted last
FindByEmailStale(rs, email) ==
  LET m == {i \in 1..(Len(rs) - 1) : rs[i].email = email}
  IN IF m = {} THEN None ELSE Some(rs[CHOOSE i \in m : TRUE])

\* prisma.subscriber.findUnique({ where: { email } })
FindByEmail(rs, email) ==
  LET m == {i \in 1..Len(rs) : rs[i].email = email}
  IN IF m = {} THEN None ELSE Some(rs[CHOOSE i \in m : TRUE])

\* prisma.subscriber.findUnique({ where: { referralCode } })
FindByReferralCode(rs, code) ==
  LET m == {i \in 1..Len(rs) : rs[i].referralCode = Some(code)}
  IN IF m = {} THEN None ELSE Some(rs[CHOOSE i \in m : TRUE])

\* variant: email String without @unique
ViolationsEmailNotUnique(rs, data) ==
  {c \in {"referralCode", "referredBy"} :
     \/ c = "referralCode" /\ data.referralCode # None
                           /\ \E i \in 1..Len(rs) : rs[i].referralCode = data.referralCode
     \/ c = "referredBy" /\ data.referredBy # NullId
                         /\ ~\E i \in 1..Len(rs) : rs[i].id = data.referredBy}

\* variant: referralCode String? without @unique
ViolationsCodeNotUnique(rs, data) ==
  {c \in {"email", "referredBy"} :
     \/ c = "email" /\ \E i \in 1..Len(rs) : rs[i].email = data.email
     \/ c = "referredBy" /\ data.referredBy # NullId
                         /\ ~\E i \in 1..Len(rs) : rs[i].id = data.referredBy}

\* the constraints of the Subscriber model an insert of data would violate
Violations(rs, data) ==
  {c \in {"email", "referralCode", "referredBy"} :
     \/ c = "email" /\ \E i \in 1..Len(rs) : rs[i].email = data.email
     \/ c = "referralCode" /\ data.referralCode # None
                           /\ \E i \in 1..Len(rs) : rs[i].referralCode = data.referralCode
     \/ c = "referredBy" /\ data.referredBy # NullId
                         /\ ~\E i \in 1..Len(rs) : rs[i].id = data.referredBy}

\* the row an insert of data stores: id, timestamps and verified take their defaults
NewRow(rs, data) ==
  [id |-> Len(rs) + 1, email |-> data.email, name |-> data.name,
   createdAt |-> Len(rs) + 1, updatedAt |-> Len(rs) + 1,
   referralCode |-> data.referralCode, referredBy |-> data.referredBy,
   verified |-> FALSE]

\* variant: upsert on email, an existing row with the email is overwritten
SubscriberUpsert(rs, data) ==
  LET m == {i \in 1..Len(rs) : rs[i].email = data.email}
  IN IF m = {}
       THEN [ok |-> TRUE, rows |-> Append(rs, NewRow(rs, data)), targets |-> {}]
       ELSE [ok |-> TRUE,
             rows |-> [i \in 1..Len(rs) |->
                        IF i \in m THEN [rs[i] EXCEPT !.name = data.name,
                                                      !.referralCode = data.referralCode,
                                                      !.referredBy = data.referredBy]
                        ELSE rs[i]],
             targets |-> {}]

\* prisma.subscriber.create({ data }): the insert commits, or the first
\* constraint the database finds violated is raised and nothing is written
SubscriberCreate(rs, data) ==
  LET v == Violations(rs, data)
  IN IF v = {} THEN [ok |-> TRUE, rows |-> Append(rs, NewRow(rs, data)), targets |-> {}]
     ELSE [ok |-> FALSE, rows |-> rs, targets |-> v]

(***************************************************************************)
(* GET /api/waitlist/count and GET /api/waitlist/referrals.                *)
(***************************************************************************)
CodeMin == 3
CodeMax == 20

\* String.prototype.trim over the whitespace the inputs use
Trim(s) ==
  LET ns == {i \in 1..Len(s) : s[i] # " "}
  IN IF ns = {} THEN <<>>
     ELSE SubSeq(s, CHOOSE i \in ns : \A j \in ns : i <= j,
                    CHOOSE i \in ns : \A j \in ns : j <= i)

\* variant: the code is trimmed before its length is checked
referralQuerySchemaTrimmed(code) ==
  /\ code # None
  /\ Len(Trim(code[1])) >= CodeMin
  /\ Len(Trim(code[1])) <= CodeMax

\* referralQuerySchema.safeParse({ code }).success; code is null when the parameter is missing
referralQuerySchema(code) ==
  /\ code # None
  /\ Len(code[1]) >= CodeMin
  /\ Len(code[1]) <= CodeMax

\* variant: the rest of the local part becomes three stars, whatever its length
MaskEmailFixedStars(s) ==
  LET ats == {i \in 3..Len(s) : s[i] = "@"}
  IN IF ats = {} THEN s
     ELSE LET q == CHOOSE i \in ats : \A j \in ats : j <= i
          IN SubSeq(s, 1, 2) \o <<"*","*","*">> \o SubSeq(s, q, Len(s))

\* email.replace(/(.{2})(.*)(?=@)/, (_, start, rest) => start + '*'.repeat(rest.length))
\* the match starts at the first character and ends before the last '@' that
\* leaves two characters in front of it; without such an '@' nothing is replaced
MaskEmail(s) ==
  LET ats == {i \in 3..Len(s) : s[i] = "@"}
  IN IF ats = {} THEN s
     ELSE LET q == CHOOSE i \in ats : \A j \in ats : j <= i
          IN SubSeq(s, 1, 2) \o [i \in 1..(q - 3) |-> "*"] \o SubSeq(s, q, Len(s))

\* include: { referrals: ... }: the rows whose referredBy is the subscriber's id
Referrals(rs, subscriber) ==
  SelectSeq(rs, LAMBDA row : row.referredBy = subscriber.id)

\* variant: only the rows that nobody referred are counted
CountResponseUnreferred(rs) ==
  [status |-> 200, success |-> TRUE,
   count |-> Len(SelectSeq(rs, LAMBDA row : row.referredBy = NullId))]

CountResponse(rs) == [status |-> 200, success |-> TRUE, count |-> Len(rs)]

\* the catch block of the count route: the error is logged, not returned
CountFailed ==
  [status |-> 500, success |-> FALSE, message |-> "Failed to fetch waitlist count"]

\* errors prisma.subscriber.count() can throw: database unreachable, pool timeout
StoreFaults == {"P1001", "P2024"}

InvalidCodeFormat ==
  [status |-> 400, success |-> FALSE, message |-> "Invalid referral code format"]

CodeNotFound ==
  [status |-> 404, success |-> FALSE, message |-> "Referral code not found"]

\* the response of GET /api/waitlist/referrals?code=...
ReferralsResponse(rs, code) ==
  IF ~referralQuerySchema(code) THEN InvalidCodeFormat
  ELSE LET subscriber == FindByReferralCode(rs, code[1])
       IN IF subscriber = None THEN CodeNotFound
          ELSE LET refs == Referrals(rs, subscriber[1])
               IN [status |-> 200, success |-> TRUE,
                   stats |-> [totalReferrals |-> Len(refs),
                              referrals |-> [i \in 1..Len(refs) |->
                                               [date |-> refs[i].createdAt,
                                                email |-> MaskEmail(refs[i].email)]]]]

\* the code parameters tried: those of the signup form, three spaces, and
\* codes of CodeMax and CodeMax + 1 characters; None is a missing parameter
Repeat(c, n) == [i \in 1..n |-> c]

LookupCodeInputs ==
  ReferralCodeInputs
  \cup {Some(Repeat(" ", CodeMin)), Some(Repeat("A", CodeMax)), Some(Repeat("A", CodeMax + 1))}

\* no GET request yet
NoCall == [kind |-> "none", code |-> None, reads |-> 0, fault |-> None]

(***************************************************************************)
(* The WaitlistForm component (waitlist-form.tsx).  A JSON value is known  *)
(* by its type and its property names, which is what onSubmit tests.       *)
(***************************************************************************)
MaxSubmits == 2

\* result.error.flatten().fieldErrors: for each field an array of messages
FieldErrors(fields) ==
  [f \in fields |-> [type |-> "array", keys |-> {"0", "length"}]]

\* the body of a response as response.json() yields it: errors is undefined
\* unless the response has the error map
ResultOf(response) ==
  [message |-> IF "message" \in DOMAIN response THEN Some(response.message) ELSE None,
   referralCode |-> IF "referralCode" \in DOMAIN response
                      THEN Some(response.referralCode) ELSE None,
   errors |-> IF "errors" \in DOMAIN response
                THEN Some(FieldErrors(response.errors)) ELSE None]

\* what a fetch of the form can end with: the promise rejects, the body is
\* not JSON, or one of the responses of the POST handler arrives
FetchOutcomes ==
  {[kind |-> "rejected", response |-> NoResponse],
   [kind |-> "notJson", response |-> ServerError]}
  \cup {[kind |-> "json", response |-> x] :
          x \in {Joined(generateUniqueCode(v)) : v \in RandomValues}
                \cup {ValidationFailed({"email"}), ValidationFailed({"email", "name"}),
                      DuplicateEmail, InvalidReferralCode, ServerError}}

NoOutcome == [kind |-> "none", response |-> NoResponse]

\* defaultValues of useForm: every field is the empty string
FormDefaults == Body(Some(<<>>), Some(<<>>), Some(<<>>))

\* what the user has typed when the form is submitted: a name, an email and
\* the referral code field blank or filled in
FormInputs ==
  {Body(Some(e), Some(<<"A","l">>), c) :
     e \in ValidEmailInputs \cup InvalidEmailInputs,
     c \in ReferralCodeInputs \ {None}}
  \cup {Body(Some(<<"x","@","d",".","i","o">>), Some(<<>>), Some(<<>>))}

\* response.ok
Ok(response) == response.status >= 200 /\ response.status <= 299

\* useState(false), useState('idle'), useState(null), useState(null) and the
\* errors of useForm; outcome is what the fetch in flight or the last one
\* ended with
FormInit ==
  [pc |-> "idle", isSubmitting |-> FALSE, formStatus |-> "idle", errorMessage |-> None,
   referralCode |-> None, errors |-> {}, outcome |-> NoOutcome, submits |-> 0,
   data |-> FormDefaults]

(***************************************************************************)
(* State.                                                                  *)
(***************************************************************************)
VARIABLES
  rows,        \* the Subscriber table, in insertion order
  pc,          \* per request slot: where its POST handler stands
  req,         \* per slot: the parsed body
  referrerId,  \* per slot: the handler's referrerId (NullId: undefined)
  resp,        \* per slot: the response sent
  err,         \* per slot: the constraint named by the error caught, "" if none
  created,     \* per slot: id of the row its insert stored, NullId if none
  known,       \* per slot: the email was in the table when the request arrived
  seen,        \* per slot: number of rows in the table at the referrer lookup
  started,     \* number of requests received so far
  getResp,     \* response of the latest GET request
  getCall,     \* the latest GET request: endpoint, code parameter, store calls made, store error
  calls,       \* per slot: the store calls its handler has made, in order
  inserted,    \* number of inserts committed so far
  counted,     \* the counts the count requests have returned, in order
  form         \* the WaitlistForm component: its state hooks, form errors and submission

vars == <<rows, pc, req, referrerId, resp, err, created, known, seen, started, getResp, getCall,
         calls, inserted, counted, form>>

Slots == 1..NumSlots

Init ==
  /\ rows = <<>>
  /\ pc = [r \in Slots |-> "idle"]
  /\ req = [r \in Slots |-> NoBody]
  /\ referrerId = [r \in Slots |-> NullId]
  /\ resp = [r \in Slots |-> NoResponse]
  /\ err = [r \in Slots |-> ""]
  /\ created = [r \in Slots |-> NullId]
  /\ known = [r \in Slots |-> FALSE]
  /\ seen = [r \in Slots |-> 0]
  /\ started = 0
  /\ getResp = NoResponse
  /\ getCall = NoCall
  /\ calls = [r \in Slots |-> <<>>]
  /\ inserted = 0
  /\ counted = <<>>
  /\ form = FormInit

(***************************************************************************)
(* POST /api/waitlist.  A handler that has its response returns it in the  *)
(* same turn of the event loop, before any other handler runs.             *)
(***************************************************************************)
NoneDone == \A q \in Slots : pc[q] # "done"

\* request.json() and waitlistSchema.safeParse(body) for a body out of
\* bodies; a request is served by the first free slot
Validate(r, bodies) ==
  /\ pc[r] = "idle"
  /\ NoneDone
  /\ \A q \in 1..(r - 1) : pc[q] # "idle"
  /\ started < MaxRequests
  /\ \E body \in bodies :
       /\ req' = [req EXCEPT ![r] = body]
       /\ known' = [known EXCEPT ![r] =
                      body.email # None /\ \E i \in 1..Len(rows) : rows[i].email = body.email[1]]
       /\ IF ~body.json
            THEN /\ pc' = [pc EXCEPT ![r] = "done"]
                 /\ resp' = [resp EXCEPT ![r] = ServerError]
            ELSE IF ~waitlistSchema(body)
            THEN /\ pc' = [pc EXCEPT ![r] = "done"]
                 /\ resp' = [resp EXCEPT ![r] = ValidationFailed({"email"})]
            ELSE /\ pc' = [pc EXCEPT ![r] = "checkEmail"]
                 /\ resp' = resp
  /\ started' = started + 1
  /\ UNCHANGED <<rows, referrerId, err, created, seen, getResp, getCall, calls, inserted, counted, form>>

Signup_Validate(r) == Validate(r, Bodies)

\* the same with the bodies that try the limits of the fields
Signup_ValidateLimits(r) == Validate(r, LimitBodies)

\* existingSubscriber = await findUnique({ where: { email } })
Signup_CheckEmail(r) ==
  /\ pc[r] = "checkEmail"
  /\ NoneDone
  /\ IF FindByEmail(rows, req[r].email[1]) # None
       THEN /\ pc' = [pc EXCEPT ![r] = "done"]
            /\ resp' = [resp EXCEPT ![r] = DuplicateEmail]
       ELSE /\ pc' = [pc EXCEPT ![r] =
                        IF Truthy(req[r].referralCode) THEN "checkReferrer" ELSE "create"]
            /\ resp' = resp
  /\ calls' = [calls EXCEPT ![r] = Append(@, "findEmail")]
  /\ UNCHANGED <<rows, req, referrerId, err, created, known, seen, started, getResp, getCall, inserted, counted, form>>

\* variant: no early return when the referrer is not found
Signup_CheckReferrerNoReturn(r) ==
  /\ pc[r] = "checkReferrer"
  /\ NoneDone
  /\ LET referrer == FindByReferralCode(rows, req[r].referralCode[1])
     IN referrerId' = [referrerId EXCEPT ![r] =
                         IF referrer = None THEN NullId ELSE referrer[1].id]
  /\ pc' = [pc EXCEPT ![r] = "create"]
  /\ seen' = [seen EXCEPT ![r] = Len(rows)]
  /\ calls' = [calls EXCEPT ![r] = Append(@, "findReferrer")]
  /\ UNCHANGED <<rows, req, resp, err, created, known, started, getResp, getCall, inserted, counted, form>>

\* referrer = await findUnique({ where: { referralCode } })
Signup_CheckReferrer(r) ==
  /\ pc[r] = "checkReferrer"
  /\ NoneDone
  /\ LET referrer == FindByReferralCode(rows, req[r].referralCode[1])
     IN IF referrer = None
          THEN /\ pc' = [pc EXCEPT ![r] = "done"]
               /\ resp' = [resp EXCEPT ![r] = InvalidReferralCode]
               /\ referrerId' = referrerId
          ELSE /\ pc' = [pc EXCEPT ![r] = "create"]
               /\ resp' = resp
               /\ referrerId' = [referrerId EXCEPT ![r] = referrer[1].id]
  /\ seen' = [seen EXCEPT ![r] = Len(rows)]
  /\ calls' = [calls EXCEPT ![r] = Append(@, "findReferrer")]
  /\ UNCHANGED <<rows, req, err, created, known, started, getResp, getCall, inserted, counted, form>>

\* variant: referredBy is a plain column (no relation) and the handler stores
\* the submitted referral code in it, a string that is no subscriber's id
NotAnId == 0 - 1
Signup_CreateStoresCode(r) ==
  /\ pc[r] = "create"
  /\ NoneDone
  /\ \E v \in RandomValues :
       LET data == [email |-> req[r].email[1], name |-> req[r].name,
                    referralCode |-> Some(generateUniqueCode(v)),
                    referredBy |-> IF Truthy(req[r].referralCode) THEN NotAnId ELSE NullId]
           v2 == Violations(rows, data) \ {"referredBy"}
       IN IF v2 = {}
            THEN /\ rows' = Append(rows, NewRow(rows, data))
                 /\ inserted' = inserted + 1
                 /\ created' = [created EXCEPT ![r] = Len(rows) + 1]
                 /\ resp' = [resp EXCEPT ![r] = Joined(data.referralCode[1])]
                 /\ err' = err
            ELSE /\ rows' = rows
                 /\ inserted' = inserted
                 /\ created' = created
                 /\ resp' = [resp EXCEPT ![r] = ServerError]
                 /\ \E t \in v2 : err' = [err EXCEPT ![r] = t]
  /\ pc' = [pc EXCEPT ![r] = "done"]
  /\ calls' = [calls EXCEPT ![r] = Append(@, "create")]
  /\ UNCHANGED <<req, referrerId, known, seen, started, getResp, getCall, counted, form>>

\* variant: a unique constraint violation of the insert is answered as a
\* duplicate email
Signup_CreateMapsUnique(r) ==
  /\ pc[r] = "create"
  /\ NoneDone
  /\ \E v \in RandomValues :
       LET data == [email |-> req[r].email[1], name |-> req[r].name,
                    referralCode |-> Some(generateUniqueCode(v)),
                    referredBy |-> referrerId[r]]
           res == SubscriberCreate(rows, data)
       IN IF res.ok
            THEN /\ rows' = res.rows
                 /\ inserted' = inserted + 1
                 /\ created' = [created EXCEPT ![r] = res.rows[Len(res.rows)].id]
                 /\ resp' = [resp EXCEPT ![r] =
                               Joined(res.rows[Len(res.rows)].referralCode[1])]
                 /\ err' = err
            ELSE /\ rows' = res.rows
                 /\ inserted' = inserted
                 /\ created' = created
                 /\ resp' = [resp EXCEPT ![r] = DuplicateEmail]
                 /\ \E t \in res.targets : err' = [err EXCEPT ![r] = t]
  /\ pc' = [pc EXCEPT ![r] = "done"]
  /\ calls' = [calls EXCEPT ![r] = Append(@, "create")]
  /\ UNCHANGED <<req, referrerId, known, seen, started, getResp, getCall, counted, form>>

\* newReferralCode = generateUniqueCode(); subscriber = await create({ data })
Signup_Create(r) ==
  /\ pc[r] = "create"
  /\ NoneDone
  /\ \E v \in RandomValues :
       LET data == [email |-> req[r].email[1], name |-> req[r].name,
                    referralCode |-> Some(generateUniqueCode(v)),
                    referredBy |-> referrerId[r]]
           res == SubscriberCreate(rows, data)
       IN IF res.ok
            THEN /\ rows' = res.rows
                 /\ inserted' = inserted + 1
                 /\ created' = [created EXCEPT ![r] = res.rows[Len(res.rows)].id]
                 /\ resp' = [resp EXCEPT ![r] =
                               Joined(res.rows[Len(res.rows)].referralCode[1])]
                 /\ err' = err
            ELSE /\ rows' = res.rows
                 /\ inserted' = inserted
                 /\ created' = created
                 /\ resp' = [resp EXCEPT ![r] = ServerError]
                 /\ \E t \in res.targets : err' = [err EXCEPT ![r] = t]
  /\ pc' = [pc EXCEPT ![r] = "done"]
  /\ calls' = [calls EXCEPT ![r] = Append(@, "create")]
  /\ UNCHANGED <<req, referrerId, known, seen, started, getResp, getCall, counted, form>>

\* the response is sent and the handler's locals are gone
Signup_Return(r) ==
  /\ pc[r] = "done"
  /\ pc' = [pc EXCEPT ![r] = "idle"]
  /\ req' = [req EXCEPT ![r] = NoBody]
  /\ referrerId' = [referrerId EXCEPT ![r] = NullId]
  /\ resp' = [resp EXCEPT ![r] = NoResponse]
  /\ err' = [err EXCEPT ![r] = ""]
  /\ created' = [created EXCEPT ![r] = NullId]
  /\ known' = [known EXCEPT ![r] = FALSE]
  /\ seen' = [seen EXCEPT ![r] = 0]
  /\ calls' = [calls EXCEPT ![r] = <<>>]
  /\ UNCHANGED <<rows, started, getResp, getCall, inserted, counted, form>>

\* GET /api/waitlist/count; the store call returns the count or throws
GetCount ==
  /\ NoneDone
  /\ started < MaxRequests
  /\ \E fault \in {None} \cup {Some(f) : f \in StoreFaults} :
       /\ getResp' = IF fault = None THEN CountResponse(rows) ELSE CountFailed
       /\ counted' = IF fault = None THEN Append(counted, CountResponse(rows).count)
                     ELSE counted
       /\ getCall' = [kind |-> "count", code |-> None, reads |-> 1, fault |-> fault]
  /\ started' = started + 1
  /\ UNCHANGED <<rows, pc, req, referrerId, resp, err, created, known, seen, calls, inserted, form>>

\* GET /api/waitlist/referrals?code=...
GetReferrals ==
  /\ NoneDone
  /\ started < MaxRequests
  /\ \E code \in LookupCodeInputs :
       /\ getResp' = ReferralsResponse(rows, code)
       /\ getCall' = [kind |-> "referrals", code |-> code,
                      reads |-> IF referralQuerySchema(code) THEN 1 ELSE 0, fault |-> None]
  /\ started' = started + 1
  /\ UNCHANGED <<rows, pc, req, referrerId, resp, err, created, known, seen, calls, inserted, counted, form>>

Next ==
  \/ \E r \in Slots : Signup_Validate(r)
  \/ \E r \in Slots : Signup_CheckEmail(r)
  \/ \E r \in Slots : Signup_CheckReferrer(r)
  \/ \E r \in Slots : Signup_Create(r)
  \/ \E r \in Slots : Signup_Return(r)
  \/ GetCount
  \/ GetReferrals

Spec == Init /\ [][Next]_vars

\* the service with the requests that try the limits of the fields
NextLimits ==
  \/ \E r \in Slots : Signup_ValidateLimits(r)
  \/ \E r \in Slots : Signup_CheckEmail(r)
  \/ \E r \in Slots : Signup_CheckReferrer(r)
  \/ \E r \in Slots : Signup_Create(r)
  \/ \E r \in Slots : Signup_Return(r)
  \/ GetCount
  \/ GetReferrals

SpecLimits == Init /\ [][NextLimits]_vars

(***************************************************************************)
(* onSubmit of the form.  The form is rendered unless formStatus is        *)
(* 'success', and its button is disabled while isSubmitting.               *)
(***************************************************************************)
serviceVars ==
  <<rows, pc, req, referrerId, resp, err, created, known, seen, started, getResp, getCall,
    calls, inserted, counted>>

\* handleSubmit runs the resolver on what the user has typed: when it passes
\* the form errors are cleared and onSubmit is called, which does
\* setIsSubmitting(true) and setErrorMessage(null) and sends the fetch; when
\* it fails the form errors are those of the resolver and nothing is sent
Form_Submit ==
  /\ form.pc = "idle"
  /\ form.formStatus # "success"
  /\ ~form.isSubmitting
  /\ form.submits < MaxSubmits
  /\ \E data \in FormInputs :
       form' = IF WaitlistSchema(data) = {}
                 THEN [form EXCEPT !.pc = "fetch", !.isSubmitting = TRUE,
                                   !.errorMessage = None, !.errors = {},
                                   !.outcome = NoOutcome, !.submits = @ + 1,
                                   !.data = data]
                 ELSE [form EXCEPT !.errors = WaitlistSchema(data), !.submits = @ + 1,
                                   !.data = data]
  /\ UNCHANGED serviceVars

\* variant: isSubmitting is reset at the end of the try block, not in finally
FormCaughtNoFinally(f) ==
  [f EXCEPT !.pc = "idle", !.formStatus = "error",
            !.errorMessage =
              Some("Network error. Please check your connection and try again.")]

\* the catch block and the finally block
FormCaught(f) ==
  [f EXCEPT !.pc = "idle", !.formStatus = "error",
            !.errorMessage =
              Some("Network error. Please check your connection and try again."),
            !.isSubmitting = FALSE]

\* the fields onSubmit calls form.setError for: those whose entry in
\* result.errors is an object with the property _errors
FieldsSet(result) ==
  IF result.errors = None THEN {}
  ELSE {f \in DOMAIN result.errors[1] :
          result.errors[1][f].type \in {"object", "array"}
            /\ "_errors" \in result.errors[1][f].keys}

\* the try block after both awaits, and the finally block
FormSettled(f, response) ==
  LET result == ResultOf(response)
  IN IF Ok(response)
       THEN [f EXCEPT !.pc = "idle", !.formStatus = "success",
                      !.data = FormDefaults, !.errors = {},
                      !.referralCode = IF Truthy(result.referralCode)
                                         THEN result.referralCode ELSE @,
                      !.isSubmitting = FALSE]
       ELSE [f EXCEPT !.pc = "idle", !.formStatus = "error",
                      !.errorMessage =
                        IF Truthy(result.message) THEN result.message
                        ELSE Some("Something went wrong. Please try again."),
                      !.errors = FieldsSet(result),
                      !.isSubmitting = FALSE]

\* await fetch(...): the promise rejects or resolves with a response
Form_Fetch ==
  /\ form.pc = "fetch"
  /\ \E o \in FetchOutcomes :
       form' = IF o.kind = "rejected"
                 THEN FormCaught([form EXCEPT !.outcome = o])
                 ELSE [form EXCEPT !.pc = "json", !.outcome = o]
  /\ UNCHANGED serviceVars

\* await response.json(): it throws or yields the result
Form_Json ==
  /\ form.pc = "json"
  /\ form' = IF form.outcome.kind = "notJson"
                THEN FormCaught(form)
                ELSE FormSettled(form, form.outcome.response)
  /\ UNCHANGED serviceVars

NextForm ==
  \/ Form_Submit
  \/ Form_Fetch
  \/ Form_Json

SpecForm == Init /\ [][NextForm]_vars

\* every promise the form awaits settles
SpecFormFair == SpecForm /\ WF_vars(Form_Fetch) /\ WF_vars(Form_Json)

(***************************************************************************)
(* Properties.                                                             *)
(***************************************************************************)
\* the bodies that are JSON and pass waitlistSchema
ValidBodies == {body \in Bodies \cup LimitBodies : body.json /\ waitlistSchema(body)}

Valid(r) == req[r] \in ValidBodies

EmailOf(r) == req[r].email[1]

\* C1: no two subscriber rows have the same email.
C1_UniqueEmail ==
  \A i, j \in 1..Len(rows) : i # j => rows[i].email # rows[j].email

\* two requests with the same email were in flight together, one inserted and
\* the insert of the other was refused on the email constraint
C1_Witness ==
  \E r \in Slots :
    /\ pc[r] = "done" /\ err[r] = "email" /\ ~known[r]
    /\ Cardinality({i \in 1..Len(rows) : rows[i].email = EmailOf(r)}) = 1

C3_AsClaimed ==
  \A r \in Slots :
    (/\ pc[r] = "done" /\ Valid(r)
     /\ req[r].referralCode # None
     /\ FindByReferralCode(rows, req[r].referralCode[1]) = None)
      => /\ resp[r] = InvalidReferralCode
         /\ created[r] = NullId

\* C3 amended: a valid request with a supplied, non-empty referralCode that
\* matches no subscriber creates no row and ends with InvalidReferralCode,
\* unless the email check found the email in the store, and then it ends with
\* DuplicateEmail.
C3_InvalidReferralRejected ==
  \A r \in Slots :
    (/\ pc[r] = "done" /\ Valid(r)
     /\ Truthy(req[r].referralCode)
     /\ FindByReferralCode(rows, req[r].referralCode[1]) = None)
      => /\ created[r] = NullId
         /\ resp[r] \in {InvalidReferralCode, DuplicateEmail}
         /\ resp[r] = DuplicateEmail => FindByEmail(rows, EmailOf(r)) # None
         /\ known[r] => resp[r] = DuplicateEmail
         /\ FindByEmail(rows, EmailOf(r)) = None => resp[r] = InvalidReferralCode

C3_Witness ==
  \E r \in Slots :
    /\ pc[r] = "done" /\ Valid(r)
    /\ Truthy(req[r].referralCode)
    /\ FindByReferralCode(rows, req[r].referralCode[1]) = None
    /\ resp[r] = InvalidReferralCode
    /\ Len(rows) > 0

\* the masked form of an email as the service describes it: the first two
\* characters of the local part kept, the others starred, '@' and domain kept
MaskedForm(e) ==
  LET at == CHOOSE i \in 1..Len(e) : e[i] = "@"
  IN [i \in 1..Len(e) |-> IF i > 2 /\ i < at THEN "*" ELSE e[i]]

\* C4: a successful signup with the referralCode of an existing subscriber S
\* stores S's id as referredBy, and the referral stats of S's code then report
\* one more referral than before, among them the masked email of the new row.
C4_ReferralCounted ==
  [][\A r \in Slots :
       (/\ pc[r] = "create" /\ created'[r] # NullId
        /\ Truthy(req[r].referralCode)
        /\ FindByReferralCode(rows, req[r].referralCode[1]) # None)
         => LET S == FindByReferralCode(rows, req[r].referralCode[1])[1]
                new == rows'[Len(rows')]
                before == ReferralsResponse(rows, req[r].referralCode)
                after == ReferralsResponse(rows', req[r].referralCode)
            IN /\ new.referredBy = S.id
               /\ before.status = 200 /\ after.status = 200
               /\ after.stats.totalReferrals = before.stats.totalReferrals + 1
               /\ \E i \in 1..Len(after.stats.referrals) :
                     after.stats.referrals[i].email = MaskedForm(new.email)]_vars

\* C5: a valid request with a new email and no referralCode succeeds, returns
\* the referral code of the one row it creates, that row has no referrer, and
\* the count then returned is one more than the rows stored before the insert
\* (the new row's id, rows being numbered from 1 in insertion order).
C5_PlainSignupSucceeds ==
  \A r \in Slots :
    (/\ pc[r] = "done" /\ Valid(r)
     /\ req[r].referralCode = None
     /\ \A i \in 1..Len(rows) : rows[i].email = EmailOf(r) => rows[i].id = created[r])
      => /\ resp[r].success
         /\ CountResponse(rows).count = created[r]
         /\ \E i \in 1..Len(rows) :
              /\ rows[i].id = created[r]
              /\ rows[i].referredBy = NullId
              /\ resp[r].referralCode = rows[i].referralCode[1]

\* a generated code as the service describes it
WellFormedCode(code) ==
  /\ Len(code) = CodeLength
  /\ \A i \in 1..Len(code) : code[i] \in Range(DigitChars) \cup Range(UpperChars)

\* C6: every referral code generated, stored and returned by a signup is 8
\* characters of digits and uppercase letters.
C6_CodeFormat ==
  /\ \A i \in 1..Len(rows) :
       rows[i].referralCode # None => WellFormedCode(rows[i].referralCode[1])
  /\ \A r \in Slots :
       (pc[r] = "done" /\ resp[r].status = 200) => WellFormedCode(resp[r].referralCode)

\* C7: of two concurrent signups with one email at most one creates a row, and
\* the one whose insert is refused on the email constraint gets the
\* duplicate-email response.
C7_RaceLoserGetsDuplicate ==
  /\ \A r \in Slots :
       (pc[r] = "done" /\ Valid(r))
         => Cardinality({i \in 1..Len(rows) : rows[i].email = EmailOf(r)}) <= 1
  /\ \A r \in Slots :
       (pc[r] = "done" /\ err[r] = "email") => resp[r] = DuplicateEmail

\* C8: no two subscriber rows have the same non-null referralCode.
C8_UniqueReferralCode ==
  \A i, j \in 1..Len(rows) :
    (i # j /\ rows[i].referralCode # None) => rows[i].referralCode # rows[j].referralCode

\* an insert was refused because the generated code was already stored
C8_Witness ==
  \E r \in Slots :
    /\ pc[r] = "done" /\ err[r] = "referralCode"
    /\ FindByEmail(rows, EmailOf(r)) = None

\* C9: every referredBy that is set is the id of a row in the store.
C9_ReferredByExists ==
  \A i \in 1..Len(rows) :
    rows[i].referredBy # NullId => \E j \in 1..Len(rows) : rows[j].id = rows[i].referredBy

\* a referred row was inserted after another insert separated it from its
\* referrer lookup
C9_Witness ==
  \E r \in Slots :
    /\ pc[r] = "done" /\ created[r] # NullId
    /\ referrerId[r] # NullId
    /\ created[r] > seen[r] + 1
    /\ \E i \in 1..Len(rows) : rows[i].id = created[r] /\ rows[i].referredBy = referrerId[r]

IsPrefix(s, t) == Len(s) <= Len(t) /\ SubSeq(t, 1, Len(s)) = s

\* C10: a step in which a signup gets a failure response leaves the table as
\* it was, a step in which it gets the success response appends one row and
\* keeps every other row, and the GET endpoints never change the table.
C10_Frame ==
  [][/\ \A r \in Slots :
          (pc[r] # "done" /\ pc'[r] = "done")
            => IF resp'[r].success
                 THEN /\ Len(rows') = Len(rows) + 1
                      /\ IsPrefix(rows, rows')
                      /\ rows'[Len(rows')].id = created'[r]
                      /\ \A i \in 1..Len(rows) : rows'[Len(rows')].id # rows[i].id
                 ELSE rows' = rows
     /\ (\A r \in Slots : pc'[r] # "done" \/ pc[r] = "done") => rows' = rows
     /\ getResp' # getResp => rows' = rows]_vars

\* a signup was answered 500 after its insert was refused, a row being stored
C10_Witness ==
  \E r \in Slots :
    /\ pc[r] = "done" /\ resp[r] = ServerError /\ err[r] # ""
    /\ Len(rows) > 0
    /\ getResp # NoResponse

\* C11: a signup whose email is missing, is no email, or is shorter than
\* EmailMin or longer than EmailMax characters is answered 400 "Validation
\* failed" with an error map that names email, and creates no row.
C11_BadEmailRejected ==
  \A r \in Slots :
    (pc[r] = "done" /\ req[r].json /\ "email" \in WaitlistSchema(req[r]))
      => /\ resp[r].status = 400
         /\ resp[r].message = "Validation failed"
         /\ "email" \in resp[r].errors
         /\ created[r] = NullId

\* C12: a signup whose name is empty or longer than NameMax characters is
\* answered 400 "Validation failed" and creates no row.
C12_BadNameRejected ==
  \A r \in Slots :
    (pc[r] = "done" /\ req[r].json /\ "name" \in WaitlistSchema(req[r]))
      => /\ resp[r].status = 400
         /\ resp[r].message = "Validation failed"
         /\ created[r] = NullId

\* C13 as claimed: the lookup answers 400 without a store call exactly when
\* the code parameter is missing or its length after trimming is outside
\* CodeMin..CodeMax.
C13_AsClaimed ==
  getCall.kind = "referrals"
    => IF getCall.code # None /\ Len(Trim(getCall.code[1])) \in CodeMin..CodeMax
         THEN getResp.status # 400
         ELSE getResp = InvalidCodeFormat /\ getCall.reads = 0

\* C13 amended: the lookup answers 400 without a store call exactly when the
\* code parameter is missing or its length as sent, spaces included, is
\* outside CodeMin..CodeMax; every other lookup queries the store.
C13_CodeLengthChecked ==
  getCall.kind = "referrals"
    => IF getCall.code # None /\ Len(getCall.code[1]) \in CodeMin..CodeMax
         THEN getResp.status # 400 /\ getCall.reads = 1
         ELSE /\ getResp = InvalidCodeFormat
              /\ getResp.status = 400 /\ ~getResp.success
              /\ getCall.reads = 0

\* a code one character too long was refused while rows were stored
C13_Witness ==
  /\ getCall.kind = "referrals" /\ getCall.code # None
  /\ Len(getCall.code[1]) = CodeMax + 1
  /\ getResp = InvalidCodeFormat /\ getCall.reads = 0
  /\ Len(rows) > 0

\* a step that serves a referral lookup
LookupStep ==
  /\ started' = started + 1 /\ pc' = pc
  /\ getCall'.kind = "referrals"

\* the rows that own the code of the lookup served
Owners(code) == {i \in 1..Len(rows) : code # None /\ rows[i].referralCode = code}

\* the rows referred by the row at i
ReferredBy(i) == {j \in 1..Len(rows) : rows[j].referredBy = rows[i].id}

\* C14: a lookup with a well-formed code that no subscriber owns is answered
\* 404 with success false and no stats, and a lookup with the code of a
\* subscriber who has no referrals is answered with success, totalReferrals 0
\* and an empty list.
C14_UnknownCodeNotFound ==
  [][LookupStep =>
       LET code == getCall'.code
       IN /\ (referralQuerySchema(code) /\ Owners(code) = {})
               => /\ getResp' = CodeNotFound
                  /\ getResp'.status = 404 /\ ~getResp'.success
          /\ \A i \in Owners(code) :
               ReferredBy(i) = {}
                 => /\ getResp'.status = 200 /\ getResp'.success
                    /\ getResp'.stats.totalReferrals = 0
                    /\ getResp'.stats.referrals = <<>>]_vars

\* C15: a lookup with the code of a subscriber S is answered with
\* totalReferrals equal to the number of rows whose referredBy is S's id and
\* with a list of that many entries, one for each such row and dated with its
\* createdAt.
C15_ReferralsCounted ==
  [][LookupStep =>
       \A i \in Owners(getCall'.code) :
         /\ getResp'.status = 200
         /\ getResp'.stats.totalReferrals = Cardinality(ReferredBy(i))
         /\ Len(getResp'.stats.referrals) = Cardinality(ReferredBy(i))
         /\ \A j \in ReferredBy(i) :
              Cardinality({k \in 1..Len(getResp'.stats.referrals) :
                             getResp'.stats.referrals[k].date = rows[j].createdAt}) = 1
         /\ \A k \in 1..Len(getResp'.stats.referrals) :
              \E j \in ReferredBy(i) :
                getResp'.stats.referrals[k].date = rows[j].createdAt]_vars

\* the number of characters in front of the '@' of a stored email
LocalLen(e) == (CHOOSE i \in 1..Len(e) : e[i] = "@") - 1

\* the emails of the bodies that pass validation: all a row can hold
StorableEmails == {body.email[1] : body \in ValidBodies}

\* maskEmail on every storable email with a local part of two characters or
\* more, and on the two emails the documentation gives
MaskExamples ==
  /\ \A e \in StorableEmails : LocalLen(e) >= 2 => MaskEmail(e) = MaskedForm(e)
  /\ MaskEmail(<<"j","o","h","n","s","m","i","t","h","@","e","x","a","m","p","l","e",".","c","o","m">>)
       = <<"j","o","*","*","*","*","*","*","*","@","e","x","a","m","p","l","e",".","c","o","m">>
  /\ MaskEmail(<<"a","b","@","e","x","a","m","p","l","e",".","c","o","m">>)
       = <<"a","b","@","e","x","a","m","p","l","e",".","c","o","m">>

\* C16: every email a successful lookup returns is the email of a stored row,
\* dated with that row's createdAt, with the first two characters of the
\* local part kept, each other character of the local part replaced by one
\* '*', and '@' and the domain unchanged, whenever the local part has at
\* least two characters; 'johnsmith@example.com' is returned as
\* 'jo*******@example.com' and 'ab@example.com' as it is.
C16_EmailMasked ==
  /\ (getCall.kind = "referrals" /\ getResp.status = 200)
       => \A k \in 1..Len(getResp.stats.referrals) :
            \E j \in 1..Len(rows) :
              /\ rows[j].createdAt = getResp.stats.referrals[k].date
              /\ LocalLen(rows[j].email) >= 2
                   => getResp.stats.referrals[k].email = MaskedForm(rows[j].email)
  /\ \A j \in 1..Len(rows) : rows[j].email \in StorableEmails
  /\ MaskExamples

\* a lookup returned a referral whose local part has a starred character
C16_Witness ==
  /\ getCall.kind = "referrals" /\ getResp.status = 200
  /\ \E k \in 1..Len(getResp.stats.referrals) :
       \E j \in 1..Len(rows) :
         /\ rows[j].createdAt = getResp.stats.referrals[k].date
         /\ LocalLen(rows[j].email) > 2
         /\ getResp.stats.referrals[k].email[3] = "*"

\* a step that serves a count request
CountStep ==
  /\ started' = started + 1 /\ pc' = pc
  /\ getCall'.kind = "count"

C18_Scenario ==
  \A r \in Slots :
    (/\ pc[r] = "done" /\ Valid(r)
     /\ Len(rows) \in 1..2
     /\ rows[1].referredBy = NullId
     /\ created[r] # rows[1].id
     /\ EmailOf(r) # rows[1].email
     /\ req[r].referralCode = rows[1].referralCode
     /\ Truthy(req[r].referralCode) => seen[r] >= 1
     /\ Len(rows) = 2 => rows[2].id = created[r])
      => /\ resp[r].success
         /\ Len(rows) = 2
         /\ rows[2].referredBy = rows[1].id
         /\ LET stats == ReferralsResponse(rows, rows[1].referralCode)
            IN /\ stats.status = 200
               /\ stats.stats.totalReferrals = 1
               /\ stats.stats.referrals =
                     <<[date |-> rows[2].createdAt, email |-> MaskedForm(rows[2].email)]>>
         /\ CountResponse(rows) = [status |-> 200, success |-> TRUE, count |-> 2]

\* the referrer of the subscriber with this id, NullId if it has none
ReferrerOf(rs, id) ==
  LET S == {i \in 1..Len(rs) : rs[i].id = id}
  IN IF S = {} THEN NullId ELSE rs[CHOOSE i \in S : TRUE].referredBy

\* the subscriber reached from id by n referredBy links, NullId if the chain
\* ends before
RECURSIVE Ancestor(_, _, _)
Ancestor(rs, id, n) ==
  IF id = NullId \/ n = 0 THEN id ELSE Ancestor(rs, ReferrerOf(rs, id), n - 1)

\* every chain of referredBy links ends: a chain that has not ended after as
\* many links as there are rows has passed some row twice
Acyclic(rs) == \A i \in 1..Len(rs) : Ancestor(rs, rs[i].id, Len(rs)) = NullId

\* C19: after every step the referral graph has no cycle, and every row that
\* was stored before the step has the referredBy it had.
C19_AcyclicAndFixed ==
  [][/\ Acyclic(rows')
     /\ \A i \in 1..Len(rows) :
          \E j \in 1..Len(rows') :
            rows'[j].id = rows[i].id /\ rows'[j].referredBy = rows[i].referredBy]_vars

\* a chain of two links is stored: a referred subscriber has referred another
C19_Witness ==
  \E i, j \in 1..Len(rows) :
    /\ rows[i].referredBy = rows[j].id
    /\ rows[j].referredBy # NullId

\* the status the requirements and the route's test give for a signup stored
StatusCreated == 201

\* C20: a signup that stored a row is answered with status 201.
C20_CreatedStatus ==
  \A r \in Slots :
    (pc[r] = "done" /\ created[r] # NullId) => resp[r].status = StatusCreated

\* C21: a signup whose insert was refused on the referralCode constraint has
\* stored no row, has issued the insert once and not again, and is answered
\* with the generic 500 response and its fixed message, not with the
\* duplicate-email or the invalid-referral-code response.
C21_CollisionIsServerError ==
  \A r \in Slots :
    (pc[r] = "done" /\ err[r] = "referralCode")
      => /\ created[r] = NullId
         /\ Cardinality({k \in 1..Len(calls[r]) : calls[r][k] = "create"}) = 1
         /\ calls[r][Len(calls[r])] = "create"
         /\ resp[r].status = 500 /\ ~resp[r].success
         /\ resp[r].message = "An error occurred while processing your request"
         /\ resp[r] \notin {DuplicateEmail, InvalidReferralCode}

\* a referred signup passed both of its checks and its insert was refused on
\* the referralCode constraint
C21_Witness ==
  \E r \in Slots :
    /\ pc[r] = "done" /\ err[r] = "referralCode"
    /\ referrerId[r] # NullId
    /\ calls[r] = <<"findEmail", "findReferrer", "create">>
    /\ resp[r] = ServerError

\* the store calls a handler makes when nothing stops it
FullPath(r) ==
  IF Truthy(req[r].referralCode) THEN <<"findEmail", "findReferrer", "create">>
  ELSE <<"findEmail", "create">>

\* C22: the store calls of a signup are the email check, then the referrer
\* lookup when a referral code is given, then one insert, and none is made
\* before validation has passed; a request answered with the validation
\* failure has made no store call, one answered with the duplicate email only
\* the email check, one answered with the invalid referral code only the two
\* reads, and an insert is issued with a referral code only when its referrer
\* was found.
C22_StepOrder ==
  \A r \in Slots :
    /\ calls[r] # <<>> => Valid(r) /\ IsPrefix(calls[r], FullPath(r))
    /\ (pc[r] = "done" /\ ~Valid(r)) => calls[r] = <<>>
    /\ (pc[r] = "done" /\ resp[r] = DuplicateEmail) => calls[r] = <<"findEmail">>
    /\ (pc[r] = "done" /\ resp[r] = InvalidReferralCode)
         => calls[r] = <<"findEmail", "findReferrer">>
    /\ (calls[r] # <<>> /\ calls[r][Len(calls[r])] = "create")
         => /\ pc[r] = "done"
            /\ resp[r] \notin {DuplicateEmail, InvalidReferralCode}
            /\ Truthy(req[r].referralCode) => referrerId[r] # NullId

\* a referred signup made its three store calls in order and stored its row
C22_Witness ==
  \E r \in Slots :
    /\ pc[r] = "done" /\ created[r] # NullId
    /\ calls[r] = <<"findEmail", "findReferrer", "create">>
    /\ \E q \in Slots : q # r /\ pc[q] = "create"

\* C23: a valid signup whose referralCode is the empty string makes no
\* referrer lookup, is not answered with the invalid-referral-code response,
\* and the row it stores has no referrer.
C23_EmptyCodeIsNoCode ==
  \A r \in Slots :
    (Valid(r) /\ req[r].referralCode = Some(<<>>))
      => /\ \A k \in 1..Len(calls[r]) : calls[r][k] # "findReferrer"
         /\ pc[r] = "done" => resp[r] # InvalidReferralCode
         /\ referrerId[r] = NullId
         /\ \A i \in 1..Len(rows) :
              (created[r] # NullId /\ rows[i].id = created[r]) => rows[i].referredBy = NullId

\* a signup with the empty referralCode stored its row while another row had
\* the empty string as its referral code
C23_Witness ==
  \E r \in Slots :
    /\ pc[r] = "done" /\ req[r].referralCode = Some(<<>>)
    /\ created[r] # NullId /\ resp[r].success
    /\ \E i \in 1..Len(rows) :
         rows[i].id # created[r] /\ rows[i].referralCode = Some(<<>>)

\* C24: the referral code a successful signup returns passes the lookup's
\* validation, the lookup of it succeeds and resolves to the row just stored,
\* and a signup that submits it has its referrer lookup made and finds that
\* row, whose id it stores as referredBy.
C24_CodeRoundTrip ==
  \A r \in Slots :
    (pc[r] = "done" /\ resp[r].success)
      => LET code == Some(resp[r].referralCode)
         IN /\ referralQuerySchema(code)
            /\ ReferralsResponse(rows, code).status = 200
            /\ Truthy(code)
            /\ FindByReferralCode(rows, code[1]) # None
            /\ FindByReferralCode(rows, code[1])[1].id = created[r]

\* two emails that differ, and only in the case of their letters
DifferInCase(a, b) == a # b /\ ToUpperCase(a) = ToUpperCase(b)

\* C25: the row a signup stores has the submitted email character for
\* character, and a valid signup without referral code whose email is in the
\* store only in another letter case is accepted and stores a row of its own
\* beside that one.
C25_ExactEmail ==
  \A r \in Slots :
    /\ \A i \in 1..Len(rows) :
         (pc[r] = "done" /\ rows[i].id = created[r]) => rows[i].email = EmailOf(r)
    /\ (/\ pc[r] = "done" /\ Valid(r)
        /\ req[r].referralCode = None
        /\ \A i \in 1..Len(rows) : rows[i].email = EmailOf(r) => rows[i].id = created[r]
        /\ \E i \in 1..Len(rows) : DifferInCase(rows[i].email, EmailOf(r)))
         => /\ resp[r].success
            /\ \E i, j \in 1..Len(rows) :
                 /\ i # j /\ rows[i].id = created[r]
                 /\ rows[i].email = EmailOf(r)
                 /\ DifferInCase(rows[j].email, rows[i].email)

\* the masked email m against the stored email e: same length, the same
\* characters from '@' on, unchanged when the local part has fewer than two
\* characters, and starred in as many places as the local part has
\* characters beyond two
MaskedLike(m, e) ==
  LET local == LocalLen(e)
  IN /\ Len(m) = Len(e)
     /\ \A i \in (local + 1)..Len(e) : m[i] = e[i]
     /\ local < 2 => m = e
     /\ Cardinality({i \in 1..Len(e) : m[i] = "*" /\ e[i] # "*"})
          = (IF local > 2 THEN local - 2 ELSE 0)

\* maskEmail keeps the shape on every email a row can hold
MaskShapes == \A e \in StorableEmails : MaskedLike(MaskEmail(e), e)

\* C26: the masked form of every email a row can hold, and every email a successful
\* lookup returns, has the length of the stored email and its characters
\* from '@' on, is the stored email itself when the local part has fewer than
\* two characters, and has max(0, local-part length - 2) stars put in.
C26_MaskShape ==
  /\ MaskShapes
  /\ (getCall.kind = "referrals" /\ getResp.status = 200)
       => \A k \in 1..Len(getResp.stats.referrals) :
            \E j \in 1..Len(rows) :
              /\ rows[j].createdAt = getResp.stats.referrals[k].date
              /\ MaskedLike(getResp.stats.referrals[k].email, rows[j].email)

\* a lookup returned a referral while an email with a local part of one
\* character was stored
C26_Witness ==
  /\ getCall.kind = "referrals" /\ getResp.status = 200
  /\ Len(getResp.stats.referrals) > 0
  /\ \E j \in 1..Len(rows) : LocalLen(rows[j].email) < 2

\* the store is empty when the service starts
InitialRows == 0

\* C27: a count request whose store call returns is answered with the number
\* of rows the store started with plus the number of inserts committed so
\* far, which is no less than any count returned before, and the counts
\* returned so far never decrease.
C27_CountMonotone ==
  [][/\ (CountStep /\ getCall'.fault = None)
          => /\ getResp'.count = InitialRows + inserted
             /\ counted' = Append(counted, getResp'.count)
             /\ \A k \in 1..Len(counted) : counted[k] <= getResp'.count
     /\ \A k \in 1..Len(counted') : \A j \in 1..k : counted'[j] <= counted'[k]
     /\ inserted' >= inserted]_vars

\* two count requests returned different counts, a signup having stored its
\* row between them
C27_Witness ==
  /\ Len(counted) >= 2
  /\ counted[1] < counted[Len(counted)]
  /\ counted[Len(counted)] = inserted

EndedOk == form.outcome.kind = "json" /\ Ok(form.outcome.response)

\* C29: a form that is not in a submission has isSubmitting false, and a
\* submission under way always comes to its end; formStatus is 'success'
\* only when the last fetch ended with an ok response; and when the last
\* fetch ended with a response that is not ok, a body that is not JSON or a
\* rejection, formStatus is 'error' and errorMessage is set.
C29_SubmissionEnds ==
  /\ [](form.pc = "idle" => ~form.isSubmitting)
  /\ [](form.formStatus = "success" => EndedOk)
  /\ []((form.pc = "idle" /\ form.outcome.kind # "none" /\ ~EndedOk)
          => (form.formStatus = "error" /\ Truthy(form.errorMessage)))
  /\ (form.isSubmitting ~> ~form.isSubmitting)

\* the second submission of the form ended with a rejected fetch
C29_Witness ==
  /\ form.pc = "idle" /\ form.submits = 2
  /\ form.outcome.kind = "rejected"
  /\ form.formStatus = "error" /\ ~form.isSubmitting

====
